---- MODULE Spec2Model ----
(***************************************************************************)
(* The debug key-value administration workflow of the OpenAuth worker      *)
(* (src/src/debug.ts): the challenge-gated listing route, the              *)
(* single-identity cascading delete and the paginated clear-all, run as    *)
(* asynchronous request handlers over one shared key-value store and one   *)
(* shared pending-challenge slot.                                          *)
(*                                                                         *)
(* A handler is cut into one action per stretch of code between two        *)
(* suspension points (an await of a store call).  Every store call either  *)
(* returns or raises.  Keys are sequences of symbols: the literal words of *)
(* the key scheme ("email", "oauth:refresh", "password", "subject") and    *)
(* the \u001f delimiter are one symbol each, the variable parts (email     *)
(* address, subject id, session id) are sequences of character symbols.    *)
(***************************************************************************)
EXTENDS Integers, Sequences, FiniteSets, TLC

\* ------------------------------------------------------------ bounds

\* Sessions (refresh keys) the first subject can hold when the store is seeded.
MaxSessions == 3
\* Keys the store returns in one page of a list call, whatever limit is asked.
StorePageSize == 2
\* Requests started in one behaviour over a seeded store.
MaxRequests == 2
\* Requests started in one behaviour over the example store.
MaxExampleRequests == 3
\* Store calls that raise in one behaviour.
MaxFailures == 1
\* Refresh records the issuer writes while requests run.
MaxWrites == 1
\* Requests, logins included, a behaviour of the specification with the
\* success callback may hold.
MaxLoginRequests == 2
\* Clear-all requests in one behaviour of the specification of clear-all alone.
MaxClearRequests == 1
\* Store calls that raise in one such behaviour: enough for every deletion of
\* a clear-all to fail.
MaxClearFailures == 5

\* ------------------------------------------------------------ values

\* Every string is a sequence of symbols, the empty string the empty sequence.
\* JavaScript's null and undefined are kept apart from every string.
Null == <<"<null>">>
Undefined == <<"<undefined>">>

\* A non-string form entry (FormData.get may return a File).
FileEntry == <<"<file>">>

\* typeof x === 'string'
IsString(x) == x # Null /\ x # Undefined /\ x # FileEntry

\* if (x): null, undefined and the empty string are falsy.
Truthy(x) == x # Null /\ x # Undefined /\ x # <<>>

\* The values Math.random().toString(36).substring(2, 8).toUpperCase() is
\* drawn from.
Tokens == {<<"A">>, <<"B">>}

\* ------------------------------------------------------------ keys

\* '\u001f'
DELIMITER == "US"
\* 'email\u001f'
EMAIL_PREFIX == <<"email", DELIMITER>>
\* '\u001fpassword'
PWD_SUFFIX == <<DELIMITER, "password">>
\* '\u001fsubject'
SUBJECT_SUFFIX == <<DELIMITER, "subject">>
\* 'oauth:refresh'
REFRESH_TOKEN_PREFIX_PART1 == <<"oauth:refresh">>

\* The list limit both listings and the clear-all scan ask for.
keyLimit == 1000

\* A fault: the second prefix is empty, so the scan takes every key.
PrefixesUnbounded == << <<"email", DELIMITER>>, << >> >>

\* The two key families clear-all scans, in the order it scans them.
prefixes_to_delete == << <<"email", DELIMITER>>, <<"oauth:refresh", DELIMITER>> >>

\* `${EMAIL_PREFIX}${email}${PWD_SUFFIX}`
pwdHashKey(email) == EMAIL_PREFIX \o email \o PWD_SUFFIX
\* `${EMAIL_PREFIX}${email}${SUBJECT_SUFFIX}`
subjectMapKey(email) == EMAIL_PREFIX \o email \o SUBJECT_SUFFIX

\* A fault: the prefix ends with the subject id, without the delimiter.
RefreshPrefixOpen(subjectId) == REFRESH_TOKEN_PREFIX_PART1 \o <<DELIMITER>> \o subjectId

\* A fault: the prefix built with ':' where the issuer writes the delimiter.
RefreshPrefixColon(subjectId) ==
    REFRESH_TOKEN_PREFIX_PART1 \o <<":">> \o subjectId \o <<":">>

\* `${REFRESH_TOKEN_PREFIX_PART1}${DELIMITER}${subjectId}${DELIMITER}`
refreshTokenPrefixForUser(subjectId) ==
    REFRESH_TOKEN_PREFIX_PART1 \o <<DELIMITER>> \o subjectId \o <<DELIMITER>>

\* The family of the keys the external issuer stores refresh records under,
\* and the key of one session of a subject.
RefreshFamily == <<"oauth:refresh", DELIMITER>>
SubjectFamily(subjectId) == RefreshFamily \o subjectId \o <<DELIMITER>>
refreshKey(subjectId, session) == SubjectFamily(subjectId) \o <<session>>

\* String.prototype.startsWith
StartsWith(s, p) == Len(p) <= Len(s) /\ SubSeq(s, 1, Len(p)) = p

\* String.prototype.indexOf(ch, from), 1-based; 0 stands for -1 (not found).
RECURSIVE IndexOf(_, _, _)
IndexOf(s, ch, from) ==
    IF from > Len(s) THEN 0
    ELSE IF s[from] = ch THEN from
    ELSE IndexOf(s, ch, from + 1)

\* ------------------------------------------------------------ the seeded store

EmailA == <<"a">>
EmailB == <<"b">>
Emails == {EmailA, EmailB}
\* Two subject ids, one a proper string prefix of the other.
Sub1 == <<"s", "1">>
Sub10 == <<"s", "1", "0">>
SubjectOf(email) == IF email = EmailA THEN Sub1 ELSE Sub10
SessionNames == <<"t1", "t2", "t3", "t4", "t5", "t6", "t7", "t8">>
\* A key of the email family with no delimiter after the prefix.
MalformedKey == <<"email", DELIMITER, "0">>
\* A key outside both families.
OtherKey == <<"other">>
\* The value of a refresh record: the subject and its properties.
SessionRecord == <<"session">>
\* The user ids the backend service answers with.
UserIds == {<<"u">>}

\* Byte order of the first character of each symbol (keys list in this order).
Rank(sym) ==
    CASE sym = DELIMITER -> 1
      [] sym = "0" -> 2
      [] sym = "1" -> 3
      [] sym = "a" -> 10
      [] sym = "b" -> 11
      [] sym = "email" -> 12
      [] sym = "oauth:refresh" -> 13
      [] sym = "other" -> 14
      [] sym = "password" -> 15
      [] sym = "refresh" -> 16
      [] sym = "u" -> 19
      [] sym = "user" -> 19
      [] sym = "s" -> 17
      [] sym = "subject" -> 17
      [] sym = "x" -> 30
      [] sym = ":" -> 4
      [] OTHER -> 20 + IndexOf(SessionNames, sym, 1)

\* Lexicographic order of two keys.
RECURSIVE KeyLess(_, _)
KeyLess(a, b) ==
    IF a = <<>> THEN b # <<>>
    ELSE IF b = <<>> THEN FALSE
    ELSE IF Head(a) = Head(b) THEN KeyLess(Tail(a), Tail(b))
    ELSE Rank(Head(a)) < Rank(Head(b))

\* ------------------------------------------------------------ the store

\* The smallest key of a non-empty set.
MinKey(S) == CHOOSE k \in S : \A j \in S : j = k \/ KeyLess(k, j)

\* The keys of a set in the store's listing order.
RECURSIVE SortKeys(_)
SortKeys(S) ==
    IF S = {} THEN <<>>
    ELSE LET k == MinKey(S) IN <<k>> \o SortKeys(S \ {k})

\* The first n elements of a sequence.
Take(q, n) == SubSeq(q, 1, IF n < Len(q) THEN n ELSE Len(q))

Min2(a, b) == IF a < b THEN a ELSE b

\* KVNamespace.list({prefix, cursor, limit}) on the key set K: the keys under the
\* prefix, in order, after the cursor, one page of them.  The cursor is the
\* last key of the page before; the store returns one only when more remain.
KVList(K, prefix, cursor, limit) ==
    LET matching == {k \in K : StartsWith(k, prefix)
                               /\ (cursor = Undefined \/ KeyLess(cursor, k))}
        all == SortKeys(matching)
        page == Take(all, Min2(limit, StorePageSize))
        complete == Len(page) = Len(all)
    IN [keys |-> page,
        list_complete |-> complete,
        cursor |-> IF complete THEN Undefined ELSE page[Len(page)]]

\* KVNamespace.get(key, {type: 'text'}): the value, or null for an absent key.
KVGet(st, key) == IF key \in DOMAIN st THEN st[key] ELSE Null

\* KVNamespace.delete(key): deleting an absent key succeeds and changes nothing.
KVDelete(st, key) == [k \in DOMAIN st \ {key} |-> st[k]]

\* KVNamespace.put(key, value)
KVPut(st, key, value) == [k \in DOMAIN st \cup {key} |-> IF k = key THEN value ELSE st[k]]

\* The elements of a sequence.
Range(q) == {q[i] : i \in 1..Len(q)}

\* ------------------------------------------------------------ listing helpers

\* A fault: a key with no delimiter after the prefix yields the rest of its
\* name as an identity.
ExtractEmailOrRest(name) ==
    LET startIndex == Len(EMAIL_PREFIX)
        endIndex == IndexOf(name, DELIMITER, startIndex + 1)
    IN IF endIndex # 0 THEN SubSeq(name, startIndex + 1, endIndex - 1)
       ELSE SubSeq(name, startIndex + 1, Len(name))

\* The map callback of the listing: the text between the prefix and the first
\* delimiter after it, or null when there is no such delimiter.
ExtractEmail(name) ==
    LET startIndex == Len(EMAIL_PREFIX)
        endIndex == IndexOf(name, DELIMITER, startIndex + 1)
    IN IF endIndex # 0 THEN SubSeq(name, startIndex + 1, endIndex - 1) ELSE Null

\* A fault: an identity is kept once, however many keys of the page name it.
RECURSIVE ExtractEmailsDistinct(_)
ExtractEmailsDistinct(keys) ==
    IF keys = <<>> THEN <<>>
    ELSE LET name == Head(keys)
             rest == ExtractEmailsDistinct(Tail(keys))
         IN IF ~StartsWith(name, EMAIL_PREFIX) THEN rest
            ELSE IF ExtractEmail(name) = Null THEN rest
            ELSE IF ExtractEmail(name) \in Range(rest) THEN rest
            ELSE <<ExtractEmail(name)>> \o rest

\* listResult.keys.filter(startsWith).map(extract).filter(not null)
RECURSIVE ExtractEmails(_)
ExtractEmails(keys) ==
    IF keys = <<>> THEN <<>>
    ELSE LET name == Head(keys)
             rest == ExtractEmails(Tail(keys))
         IN IF ~StartsWith(name, EMAIL_PREFIX) THEN rest
            ELSE IF ExtractEmail(name) = Null THEN rest
            ELSE <<ExtractEmail(name)>> \o rest

\* A fault: the challenge stays pending after it has let a request through.
ChallengeKept(expectedChallenge) == expectedChallenge

\* currentDebugChallenge = null once a request is let through: the slot's
\* value after the challenge expectedChallenge has been presented.
ConsumedChallenge(expectedChallenge) == Null

\* A fault: with no challenge pending, any challenge a request carries passes.
ChallengePassedWhenEmpty(expectedChallenge, userChallenge) ==
    \/ Truthy(expectedChallenge) /\ userChallenge = expectedChallenge
    \/ ~Truthy(expectedChallenge) /\ Truthy(userChallenge)

\* A fault: any request is let through while a challenge is pending.
ChallengePassedUncompared(expectedChallenge, userChallenge) ==
    Truthy(expectedChallenge)

\* The condition under which the listing route lets a request through.
ChallengePassed(expectedChallenge, userChallenge) ==
    Truthy(expectedChallenge) /\ userChallenge = expectedChallenge

\* ------------------------------------------------------------ state

VARIABLES
    currentDebugChallenge,  \* the pending challenge of the module, or null
    store,                  \* AUTH_STORE: a function from the keys present to values
    req,                    \* per request slot: the handler's position and locals
    answer,                 \* the answer sent by the step that led here, if any
    last,                   \* history: the latest delete-one or clear-all answered
    mintPasses,             \* history: requests let through since the last mint
    spent,                  \* history: the challenge of the latest request let through
    started,                \* history: requests started
    failures,               \* history: store calls that raised
    writes,                 \* history: records written by the issuer
    limit                   \* the requests, failures and writes a behaviour may
                            \* hold, and whether requests may overlap

vars == <<currentDebugChallenge, store, req, answer, last, mintPasses, spent, started,
          failures, writes, limit>>

\* Requests that can be in flight at once.
Slots == {1, 2}

\* What a request can carry as its challenge query parameter.
UserChallenges == Tokens \cup {Undefined}

\* What a delete-one request can carry as its email form entry.
EmailEntries == Emails \cup {Null, <<>>, FileEntry}

NoResp == [status |-> 0, page |-> "none", result |-> "none", email |-> Null,
           emails |-> <<>>, errorMsg |-> "none", attempted |-> 0, errors |-> 0]

\* A slot no handler runs in.  Beside the handler's locals it records, for the
\* properties: id, the number of the request in the order of arrival; ops,
\* the store calls the handler issued; deleted, the keys its delete calls
\* removed; expected, the pending challenge a listing request found; and of a
\* delete-one, as it arrived: hashed and mapped, whether the store held the
\* identity's credential key and mapping key, n, how many refresh keys the
\* identity's subject had, alone, whether the store held no other key; and
\* readOk, whether its get of the mapping key returned.
\* entry is the email entry a delete-one read from its form, and authStore
\* is false when the handler looked for the store binding and found none
\* (of a success callback: when its environment holds none).  Of a success callback, version
\* is the edit pass of index.ts that runs (1 or 2) and backend what became of
\* its call to the backend service: "missing" (no binding), "pending", "ok",
\* "non2xx" or "raised".
IdleReq ==
    [kind |-> "idle", pc |-> "idle", id |-> 0, userChallenge |-> Undefined, email |-> Null,
     subjectId |-> Null, batch |-> {}, rejected |-> FALSE,
     prefixIdx |-> 0, cursor |-> Undefined, list_complete |-> TRUE,
     totalAttemptedDeletions |-> 0, totalErrors |-> 0, overallStatus |-> "success",
     emails |-> <<>>, errorMsg |-> "none", ops |-> 0, deleted |-> {},
     alone |-> FALSE, n |-> 0, hashed |-> FALSE, mapped |-> FALSE, readOk |-> FALSE,
     expected |-> Null, entry |-> Null, authStore |-> TRUE,
     version |-> 0, backend |-> "none"]

\* What is kept of a request once it is answered.
AnswerOf(q, resp) ==
    [id |-> q.id, kind |-> q.kind, userChallenge |-> q.userChallenge, email |-> q.email,
     subjectId |-> q.subjectId, ops |-> q.ops, deleted |-> q.deleted,
     alone |-> q.alone, n |-> q.n, hashed |-> q.hashed, mapped |-> q.mapped,
     readOk |-> q.readOk, expected |-> q.expected, entry |-> q.entry,
     authStore |-> q.authStore, version |-> q.version, backend |-> q.backend,
     prev |-> last, resp |-> resp]

\* No delete-one or clear-all answered yet.  count numbers them, at is the
\* number of requests that had arrived when the last one was answered.
NoMutation == [kind |-> "none", email |-> Null, result |-> "none", alone |-> FALSE,
               n |-> 0, count |-> 0, at |-> 0]

NoAnswer ==
    [id |-> 0, kind |-> "idle", userChallenge |-> Undefined, email |-> Null,
     subjectId |-> Null, ops |-> 0, deleted |-> {}, alone |-> FALSE, n |-> 0,
     hashed |-> FALSE, mapped |-> FALSE, readOk |-> FALSE, expected |-> Null,
     entry |-> Null, authStore |-> TRUE, version |-> 0, backend |-> "none",
     prev |-> NoMutation, resp |-> NoResp]

\* The slot of an answered request: free, unless deletes of a rejected batch
\* are still in flight.
Answered(q) ==
    IF q.batch = {} THEN IdleReq
    ELSE [IdleReq EXCEPT !.kind = q.kind, !.pc = "done", !.id = q.id, !.batch = q.batch]

\* Whether a store call may raise in this step.
MayFail == failures < limit.failures

\* A request arrives in the first free slot; a delete-one or clear-all
\* arrives only while no other one is running, and where requests do not
\* overlap, any request arrives only while none is running.
Mutating(q) == q.kind \in {"delete", "clear"}
CanStart(r, kind) ==
    /\ req[r].pc = "idle"
    /\ \A o \in Slots : o < r => req[o].pc # "idle"
    /\ started < limit.requests
    /\ limit.concurrent \/ \A o \in Slots : req[o].pc = "idle"
    /\ kind # "list" => \A o \in Slots : ~Mutating(req[o])

\* The keys of one identity: its credential key, its mapping key and the
\* refresh keys of the subject the mapping names.
IdentityKeys(K, email) ==
    {k \in K : k \in {pwdHashKey(email), subjectMapKey(email)}
               \/ StartsWith(k, SubjectFamily(SubjectOf(email)))}

\* A store as the issuer leaves it: the first identity with or without its
\* mapping key and with nA sessions, and, with others, a second identity, a
\* malformed key and a key outside both families.
SeedStore(mapA, nA, others) ==
    LET keys == {pwdHashKey(EmailA)}
                \cup (IF mapA THEN {subjectMapKey(EmailA)} ELSE {})
                \cup {refreshKey(Sub1, SessionNames[i]) : i \in 1..nA}
                \cup (IF others
                      THEN {pwdHashKey(EmailB), subjectMapKey(EmailB),
                            refreshKey(Sub10, SessionNames[1]), MalformedKey, OtherKey}
                      ELSE {})
    IN [k \in keys |->
            IF k = subjectMapKey(EmailA) THEN Sub1
            ELSE IF k = subjectMapKey(EmailB) THEN Sub10
            ELSE IF k \in {pwdHashKey(EmailA), pwdHashKey(EmailB)} THEN <<"hash">>
            ELSE IF StartsWith(k, RefreshFamily) THEN SessionRecord
            ELSE <<"data">>]

\* The store of the specification's example: one identity with its
\* credential key, its mapping key and two refresh keys.
ExampleStore == SeedStore(TRUE, 2, FALSE)

InitRest ==
    /\ currentDebugChallenge = Null
    /\ req = [r \in Slots |-> IdleReq]
    /\ answer = NoAnswer
    /\ last = NoMutation
    /\ mintPasses = 0
    /\ spent = Null
    /\ started = 0
    /\ failures = 0
    /\ writes = 0

Init ==
    /\ \E mapA \in BOOLEAN, nA \in 0..MaxSessions, others \in BOOLEAN :
          store = SeedStore(mapA, nA, others)
    /\ limit = [requests |-> MaxRequests, failures |-> MaxFailures, writes |-> MaxWrites,
                concurrent |-> FALSE]
    /\ InitRest

InitExample ==
    /\ store = ExampleStore
    /\ limit = [requests |-> MaxExampleRequests, failures |-> MaxFailures,
                writes |-> MaxWrites, concurrent |-> TRUE]
    /\ InitRest

\* ------------------------------------------------------------ the listing route

\* A fault: the challenge page shows the code it asks for.
showChallengePageWithCode(expectedCode) ==
    [NoResp EXCEPT !.status = 401, !.page = "challenge", !.email = expectedCode]

\* c.html(challenge page, 401): the body does not carry the code.
showChallengePage(expectedCode) ==
    [NoResp EXCEPT !.status = 401, !.page = "challenge"]

\* c.html(htmlContent): the listing page with the identities and the banner.
ListingPage(emails, errorMsg) ==
    [NoResp EXCEPT !.status = 200, !.page = "listing", !.emails = emails,
                   !.errorMsg = errorMsg]

\* A fault: without the binding the handler answers the page with an error
\* banner, as it does when a list call fails.
BindingAsListError == ListingPage(<<>>, "error")

\* c.text('AUTH_STORE binding not available', 500)
BindingUnavailable == [NoResp EXCEPT !.status = 500, !.page = "text"]

\* The handler in slot r returns resp.
Respond(r, q, resp) ==
    /\ req' = [req EXCEPT ![r] = Answered(q)]
    /\ answer' = AnswerOf(q, resp)
    /\ last' = IF Mutating(q) /\ resp.status \in {200, 303}
               THEN [kind |-> q.kind, email |-> q.email, result |-> resp.result,
                     alone |-> q.alone, n |-> q.n, count |-> last.count + 1,
                     at |-> started]
               ELSE last

\* A step that sends no answer.
Silent == answer' = NoAnswer /\ UNCHANGED last

\* GET /list-auth-users, from the arrival of the request to its first await:
\* the challenge check, and either the 401 page with a new challenge, the 500
\* answer, or the first list call.
ListStart(r) ==
    /\ CanStart(r, "list")
    /\ \E userChallenge \in UserChallenges, authStore \in BOOLEAN :
          LET expectedChallenge == currentDebugChallenge
              q == [IdleReq EXCEPT !.kind = "list", !.id = started + 1,
                                   !.userChallenge = userChallenge,
                                   !.expected = expectedChallenge]
          IN IF ChallengePassed(expectedChallenge, userChallenge)
             THEN /\ currentDebugChallenge' = ConsumedChallenge(expectedChallenge)
                  /\ mintPasses' = mintPasses + 1
                  /\ spent' = userChallenge
                  /\ IF ~authStore
                     THEN Respond(r, [q EXCEPT !.authStore = FALSE], BindingUnavailable)
                     ELSE /\ req' = [req EXCEPT ![r] = [q EXCEPT !.pc = "list_users", !.ops = 1]]
                          /\ Silent
             ELSE \E code \in Tokens :
                  /\ currentDebugChallenge' = code
                  /\ mintPasses' = 0
                  /\ spent' = spent
                  /\ Respond(r, q, showChallengePage(code))
    /\ started' = started + 1
    /\ UNCHANGED <<store, failures, writes, limit>>

\* A fault: the listing removes the email key it can extract no address from.
ListUsersDonePruning(r) ==
    /\ req[r].kind = "list" /\ req[r].pc = "list_users"
    /\ \/ LET listResult == KVList(DOMAIN store, EMAIL_PREFIX, Undefined, keyLimit)
              emails == ExtractEmails(listResult.keys)
              errorMsg == IF listResult.list_complete = FALSE THEN "truncated" ELSE "none"
          IN /\ req' = [req EXCEPT ![r].emails = emails, ![r].errorMsg = errorMsg,
                                   ![r].pc = "list_all", ![r].ops = @ + 1]
             /\ store' = KVDelete(store, MalformedKey)
             /\ Silent /\ UNCHANGED failures
       \/ /\ MayFail
          /\ failures' = failures + 1
          /\ store' = store
          /\ Respond(r, req[r], ListingPage(<<>>, "error"))
    /\ UNCHANGED <<currentDebugChallenge, mintPasses, spent, started, writes, limit>>

\* A fault: a truncated page is treated as a failed list call.
ListUsersDoneStrict(r) ==
    /\ req[r].kind = "list" /\ req[r].pc = "list_users"
    /\ LET listResult == KVList(DOMAIN store, EMAIL_PREFIX, Undefined, keyLimit)
       IN IF listResult.list_complete = FALSE
          THEN Respond(r, req[r], ListingPage(<<>>, "error"))
          ELSE /\ req' = [req EXCEPT ![r].emails = ExtractEmails(listResult.keys),
                                     ![r].pc = "list_all", ![r].ops = @ + 1]
               /\ Silent
    /\ UNCHANGED <<currentDebugChallenge, store, mintPasses, spent, started, failures,
                   writes, limit>>

\* The list call under the email prefix returns or raises.
ListUsersDone(r) ==
    /\ req[r].kind = "list" /\ req[r].pc = "list_users"
    /\ \/ LET listResult == KVList(DOMAIN store, EMAIL_PREFIX, Undefined, keyLimit)
              emails == ExtractEmails(listResult.keys)
              errorMsg == IF listResult.list_complete = FALSE THEN "truncated" ELSE "none"
          IN /\ req' = [req EXCEPT ![r].emails = emails, ![r].errorMsg = errorMsg,
                                   ![r].pc = "list_all", ![r].ops = @ + 1]
             /\ Silent /\ UNCHANGED failures
       \/ /\ MayFail
          /\ failures' = failures + 1
          /\ Respond(r, req[r], ListingPage(<<>>, "error"))
    /\ UNCHANGED <<currentDebugChallenge, store, mintPasses, spent, started, writes, limit>>

\* A fault: when the list call over all keys raises, the page shows no identity.
ListAllDoneBlank(r) ==
    /\ req[r].kind = "list" /\ req[r].pc = "list_all"
    /\ \/ /\ Respond(r, req[r], ListingPage(req[r].emails, req[r].errorMsg))
          /\ UNCHANGED failures
       \/ /\ MayFail
          /\ failures' = failures + 1
          /\ Respond(r, req[r], ListingPage(<<>>, "error"))
    /\ UNCHANGED <<currentDebugChallenge, store, mintPasses, spent, started, writes, limit>>

\* The list call over all keys (made for the log only) returns or raises.
ListAllDone(r) ==
    /\ req[r].kind = "list" /\ req[r].pc = "list_all"
    /\ \/ /\ Respond(r, req[r], ListingPage(req[r].emails, req[r].errorMsg))
          /\ UNCHANGED failures
       \/ /\ MayFail
          /\ failures' = failures + 1
          /\ Respond(r, req[r], ListingPage(req[r].emails, "error"))
    /\ UNCHANGED <<currentDebugChallenge, store, mintPasses, spent, started, writes, limit>>

\* ------------------------------------------------------------ delete-one

\* c.redirect(`/internal/list-auth-users?status=${status}&email=...`, 303)
Redirect(status, email) ==
    [NoResp EXCEPT !.status = 303, !.page = "redirect", !.result = status, !.email = email]

\* c.text('Invalid request: Email is required and must be a string.', 400)
InvalidEmail == [NoResp EXCEPT !.status = 400, !.page = "text"]

\* A fault: the empty string passes the check of the email entry.
EmailRejectedLoose(emailValue) == ~IsString(emailValue)

\* typeof emailValue !== 'string' || !emailValue
EmailRejected(emailValue) == ~IsString(emailValue) \/ ~Truthy(emailValue)

\* The end of the handler: the challenge is reset and the redirect is sent.
DeleteFinish(r, q, status) ==
    /\ currentDebugChallenge' = Null
    /\ Respond(r, q, Redirect(status, q.email))

\* POST /delete-user-action, from the arrival of the request to the get of
\* the mapping key: the binding check, the form, the email check.
DeleteStart(r) ==
    /\ CanStart(r, "delete")
    /\ \E emailValue \in EmailEntries, authStore \in BOOLEAN :
          LET q == [IdleReq EXCEPT !.kind = "delete", !.id = started + 1,
                                   !.entry = emailValue]
          IN IF ~authStore
             THEN Respond(r, [q EXCEPT !.entry = Null, !.authStore = FALSE], BindingUnavailable)
             ELSE IF EmailRejected(emailValue) THEN Respond(r, q, InvalidEmail)
             ELSE /\ req' = [req EXCEPT ![r] =
                        [q EXCEPT !.email = emailValue, !.pc = "get", !.ops = 1,
                                  !.hashed = pwdHashKey(emailValue) \in DOMAIN store,
                                  !.mapped = subjectMapKey(emailValue) \in DOMAIN store,
                                  !.alone = (\A k \in DOMAIN store :
                                                k \in IdentityKeys(DOMAIN store, emailValue)),
                                  !.n = Cardinality({k \in DOMAIN store : StartsWith(k,
                                            SubjectFamily(SubjectOf(emailValue)))})]]
                  /\ Silent
    /\ started' = started + 1
    /\ UNCHANGED <<currentDebugChallenge, store, mintPasses, spent, failures, writes, limit>>

\* A fault: without a subject id the handler gives up before it deletes.
DeleteGetDoneBail(r) ==
    /\ req[r].kind = "delete" /\ req[r].pc = "get"
    /\ LET q == [req[r] EXCEPT !.subjectId = KVGet(store, subjectMapKey(req[r].email)),
                               !.readOk = TRUE]
       IN IF Truthy(q.subjectId)
          THEN /\ req' = [req EXCEPT ![r] = [q EXCEPT !.pc = "del_pwd", !.ops = @ + 1]]
               /\ Silent /\ UNCHANGED currentDebugChallenge
          ELSE DeleteFinish(r, q, "error")
    /\ UNCHANGED <<store, mintPasses, spent, started, failures, writes, limit>>

\* A fault: when the mapping key is absent the handler takes the subject id
\* the identity had.
DeleteGetDoneGuessing(r) ==
    /\ req[r].kind = "delete" /\ req[r].pc = "get"
    /\ \/ LET found == KVGet(store, subjectMapKey(req[r].email))
          IN /\ req' = [req EXCEPT ![r].subjectId = IF found = Null
                                                     THEN SubjectOf(req[r].email)
                                                     ELSE found,
                                   ![r].readOk = TRUE,
                                   ![r].pc = "del_pwd", ![r].ops = @ + 1]
             /\ UNCHANGED failures
       \/ /\ MayFail
          /\ failures' = failures + 1
          /\ req' = [req EXCEPT ![r].pc = "del_pwd", ![r].ops = @ + 1]
    /\ Silent /\ UNCHANGED <<currentDebugChallenge, store, mintPasses, spent, started, writes, limit>>

\* A fault: a get of the mapping key that raises ends the handler with status
\* error.
DeleteGetDoneStrict(r) ==
    /\ req[r].kind = "delete" /\ req[r].pc = "get"
    /\ \/ /\ req' = [req EXCEPT ![r].subjectId = KVGet(store, subjectMapKey(req[r].email)),
                                ![r].readOk = TRUE,
                                ![r].pc = "del_pwd", ![r].ops = @ + 1]
          /\ Silent /\ UNCHANGED <<currentDebugChallenge, failures>>
       \/ /\ MayFail
          /\ failures' = failures + 1
          /\ DeleteFinish(r, req[r], "error")
    /\ UNCHANGED <<store, mintPasses, spent, started, writes, limit>>

\* The get of the mapping key returns or raises (the inner try swallows it);
\* the delete of the credential key is issued.
DeleteGetDone(r) ==
    /\ req[r].kind = "delete" /\ req[r].pc = "get"
    /\ \/ /\ req' = [req EXCEPT ![r].subjectId = KVGet(store, subjectMapKey(req[r].email)),
                                ![r].readOk = TRUE,
                                ![r].pc = "del_pwd", ![r].ops = @ + 1]
          /\ UNCHANGED failures
       \/ /\ MayFail
          /\ failures' = failures + 1
          /\ req' = [req EXCEPT ![r].pc = "del_pwd", ![r].ops = @ + 1]
    /\ Silent /\ UNCHANGED <<currentDebugChallenge, store, mintPasses, spent, started, writes, limit>>

\* The delete of the credential key returns or raises; the delete of the
\* mapping key is issued.
DeletePwdDone(r) ==
    /\ req[r].kind = "delete" /\ req[r].pc = "del_pwd"
    /\ \/ /\ store' = KVDelete(store, pwdHashKey(req[r].email))
          /\ req' = [req EXCEPT ![r].pc = "del_map", ![r].ops = @ + 1,
                                ![r].deleted = @ \cup ({pwdHashKey(req[r].email)} \cap DOMAIN store)]
          /\ Silent /\ UNCHANGED <<currentDebugChallenge, failures>>
       \/ /\ MayFail
          /\ failures' = failures + 1
          /\ DeleteFinish(r, req[r], "error")
          /\ UNCHANGED store
    /\ UNCHANGED <<mintPasses, spent, started, writes, limit>>

\* A fault: the refresh keys are listed whether or not a subject id was read.
DeleteMapDoneUnguarded(r) ==
    /\ req[r].kind = "delete" /\ req[r].pc = "del_map"
    /\ store' = KVDelete(store, subjectMapKey(req[r].email))
    /\ req' = [req EXCEPT ![r].pc = "list_refresh", ![r].ops = @ + 1,
                          ![r].deleted = @ \cup ({subjectMapKey(req[r].email)} \cap DOMAIN store)]
    /\ Silent
    /\ UNCHANGED <<currentDebugChallenge, mintPasses, spent, started, failures, writes, limit>>

\* The delete of the mapping key returns or raises; with a subject id the
\* list of its refresh keys is issued, without one the handler ends.
DeleteMapDone(r) ==
    /\ req[r].kind = "delete" /\ req[r].pc = "del_map"
    /\ \/ LET q == [req[r] EXCEPT
                       !.deleted = @ \cup ({subjectMapKey(req[r].email)} \cap DOMAIN store)]
          IN /\ store' = KVDelete(store, subjectMapKey(req[r].email))
             /\ IF Truthy(q.subjectId)
                THEN /\ req' = [req EXCEPT ![r] = [q EXCEPT !.pc = "list_refresh", !.ops = @ + 1]]
                     /\ Silent /\ UNCHANGED currentDebugChallenge
                ELSE DeleteFinish(r, q, "deleted")
             /\ UNCHANGED failures
       \/ /\ MayFail
          /\ failures' = failures + 1
          /\ DeleteFinish(r, req[r], "error")
          /\ UNCHANGED store
    /\ UNCHANGED <<mintPasses, spent, started, writes, limit>>

\* A fault: a delete is issued for the first key of the page only.
DeleteListDoneFirstKey(r) ==
    /\ req[r].kind = "delete" /\ req[r].pc = "list_refresh"
    /\ \/ LET listResult == KVList(DOMAIN store, refreshTokenPrefixForUser(req[r].subjectId),
                                   Undefined, keyLimit)
          IN /\ IF Len(listResult.keys) > 0
                THEN /\ req' = [req EXCEPT ![r].batch = {listResult.keys[1]},
                                           ![r].pc = "del_refresh",
                                           ![r].ops = @ + 1]
                     /\ Silent /\ UNCHANGED currentDebugChallenge
                ELSE DeleteFinish(r, req[r], "deleted")
             /\ UNCHANGED failures
       \/ /\ MayFail
          /\ failures' = failures + 1
          /\ DeleteFinish(r, req[r], "error")
    /\ UNCHANGED <<store, mintPasses, spent, started, writes, limit>>

\* The list of the subject's refresh keys (one page, no cursor, the default
\* limit) returns or raises; a delete is issued for every key of the page.
DeleteListDone(r) ==
    /\ req[r].kind = "delete" /\ req[r].pc = "list_refresh"
    /\ \/ LET listResult == KVList(DOMAIN store, refreshTokenPrefixForUser(req[r].subjectId),
                                   Undefined, keyLimit)
          IN /\ IF Len(listResult.keys) > 0
                THEN /\ req' = [req EXCEPT ![r].batch = Range(listResult.keys),
                                           ![r].pc = "del_refresh",
                                           ![r].ops = @ + Len(listResult.keys)]
                     /\ Silent /\ UNCHANGED currentDebugChallenge
                ELSE DeleteFinish(r, req[r], "deleted")
             /\ UNCHANGED failures
       \/ /\ MayFail
          /\ failures' = failures + 1
          /\ DeleteFinish(r, req[r], "error")
    /\ UNCHANGED <<store, mintPasses, spent, started, writes, limit>>

\* One delete of the refresh batch returns or raises.  Promise.all resumes
\* the handler when the last one has returned, or at the first that raises;
\* the deletes still in flight then go on after the answer, or are dropped
\* with the request.
DeleteRefreshDone(r) ==
    /\ req[r].kind = "delete" /\ req[r].pc \in {"del_refresh", "done"}
    /\ \E key \in req[r].batch :
          \/ LET q == [req[r] EXCEPT !.batch = @ \ {key},
                                     !.deleted = @ \cup ({key} \cap DOMAIN store)]
             IN /\ store' = KVDelete(store, key)
                /\ IF q.pc = "del_refresh"
                   THEN IF q.batch = {}
                        THEN DeleteFinish(r, q, "deleted")
                        ELSE /\ req' = [req EXCEPT ![r] = q]
                             /\ Silent /\ UNCHANGED currentDebugChallenge
                   ELSE /\ req' = [req EXCEPT ![r] = Answered(q)]
                        /\ Silent /\ UNCHANGED currentDebugChallenge
                /\ UNCHANGED failures
          \/ LET q == [req[r] EXCEPT !.batch = @ \ {key}, !.rejected = TRUE]
             IN /\ MayFail
                /\ failures' = failures + 1
                /\ IF q.pc = "del_refresh"
                   THEN DeleteFinish(r, q, "error")
                   ELSE /\ req' = [req EXCEPT ![r] = Answered(q)]
                        /\ Silent /\ UNCHANGED currentDebugChallenge
                /\ UNCHANGED store
          \/ /\ req[r].pc = "done"
             /\ req' = [req EXCEPT ![r] = Answered([req[r] EXCEPT !.batch = @ \ {key}])]
             /\ Silent /\ UNCHANGED <<currentDebugChallenge, store, failures>>
    /\ UNCHANGED <<mintPasses, spent, started, writes, limit>>

\* ------------------------------------------------------------ clear-all

\* The keys of the two families clear-all scans.
InFamily(k) == \E i \in 1..Len(prefixes_to_delete) : StartsWith(k, prefixes_to_delete[i])

\* A fault: any failed deletion makes the outcome error.
ScanStatusStrict(totalErrors, totalAttemptedDeletions) ==
    IF totalErrors > 0 THEN "error" ELSE "success"

\* The status computed once the scan has run through both prefixes.
ScanStatus(totalErrors, totalAttemptedDeletions) ==
    IF totalErrors > 0
    THEN (IF totalAttemptedDeletions > 0 THEN "partial" ELSE "error")
    ELSE "success"

\* A fault: the scan of a prefix stops after its first page.
NextCursorDropped(list_complete, cursor) == Undefined

\* cursor = listResult.list_complete ? undefined : listResult.cursor
NextCursor(list_complete, cursor) == IF list_complete THEN Undefined ELSE cursor

\* A fault: the scan ends after the first of the two prefixes.
AfterPageFirstPrefix(q) ==
    LET cursor == NextCursor(q.list_complete, q.cursor)
    IN IF Truthy(cursor)
       THEN [q EXCEPT !.cursor = cursor, !.pc = "scan", !.ops = @ + 1]
       ELSE [q EXCEPT !.cursor = Undefined, !.pc = "relist", !.ops = @ + 1,
                      !.overallStatus = ScanStatus(q.totalErrors, q.totalAttemptedDeletions)]

\* A fault: while the store reports more keys, the prefix is listed again from
\* its start.
AfterPageRestart(q) ==
    LET cursor == NextCursor(q.list_complete, q.cursor)
    IN IF Truthy(cursor)
       THEN [q EXCEPT !.cursor = Undefined, !.pc = "scan", !.ops = @ + 1]
       ELSE IF q.prefixIdx < Len(prefixes_to_delete)
       THEN [q EXCEPT !.cursor = Undefined, !.prefixIdx = @ + 1, !.pc = "scan", !.ops = @ + 1]
       ELSE [q EXCEPT !.cursor = Undefined, !.pc = "relist", !.ops = @ + 1,
                      !.overallStatus = ScanStatus(q.totalErrors, q.totalAttemptedDeletions)]

\* The end of one pass of the do-while loop of q: the cursor is updated, and
\* the scan goes on with the next page, the next prefix, or ends with the
\* status and the list call of the re-rendered page.
AfterPage(q) ==
    LET cursor == NextCursor(q.list_complete, q.cursor)
    IN IF Truthy(cursor)
       THEN [q EXCEPT !.cursor = cursor, !.pc = "scan", !.ops = @ + 1]
       ELSE IF q.prefixIdx < Len(prefixes_to_delete)
       THEN [q EXCEPT !.cursor = Undefined, !.prefixIdx = @ + 1, !.pc = "scan", !.ops = @ + 1]
       ELSE [q EXCEPT !.cursor = Undefined, !.pc = "relist", !.ops = @ + 1,
                      !.overallStatus = ScanStatus(q.totalErrors, q.totalAttemptedDeletions)]

\* The page clear-all answers with: the outcome, the counters, the identities.
ClearPage(q, emails, listErrorMsg) ==
    [NoResp EXCEPT !.status = 200, !.page = "listing", !.result = q.overallStatus,
                   !.attempted = q.totalAttemptedDeletions, !.errors = q.totalErrors,
                   !.emails = emails, !.errorMsg = listErrorMsg]

\* A fault: clear-all checks the challenge entry of its form as the listing
\* route checks its query parameter, and refuses a request that fails it.
ClearStartGated(r) ==
    /\ CanStart(r, "clear")
    /\ \E userChallenge \in UserChallenges :
          LET q == [IdleReq EXCEPT !.kind = "clear", !.id = started + 1]
          IN IF ChallengePassed(currentDebugChallenge, userChallenge)
             THEN /\ req' = [req EXCEPT ![r] = [q EXCEPT !.pc = "scan", !.prefixIdx = 1, !.ops = 1]]
                  /\ Silent
             ELSE Respond(r, q, showChallengePage(currentDebugChallenge))
    /\ started' = started + 1
    /\ UNCHANGED <<currentDebugChallenge, store, mintPasses, spent, failures, writes, limit>>

\* POST /clear-all-auth-data, from the arrival of the request to the first
\* list call of the scan.  The challenge entry of the form is read and not used.
ClearStart(r) ==
    /\ CanStart(r, "clear")
    /\ \E userChallenge \in UserChallenges, authStore \in BOOLEAN :
          LET q == [IdleReq EXCEPT !.kind = "clear", !.id = started + 1,
                                   !.authStore = authStore]
          IN IF ~authStore THEN Respond(r, q, BindingUnavailable)
             ELSE /\ req' = [req EXCEPT ![r] = [q EXCEPT !.pc = "scan", !.prefixIdx = 1, !.ops = 1]]
                  /\ Silent
    /\ started' = started + 1
    /\ UNCHANGED <<currentDebugChallenge, store, mintPasses, spent, failures, writes, limit>>

\* A fault: a list call of the scan that raises is counted, and the scan goes
\* on with the next prefix.
ClearListDoneSkipping(r) ==
    /\ req[r].kind = "clear" /\ req[r].pc = "scan"
    /\ \/ LET listResult == KVList(DOMAIN store, prefixes_to_delete[req[r].prefixIdx],
                                   req[r].cursor, keyLimit)
              keysToDelete == Range(listResult.keys)
              q == [req[r] EXCEPT !.list_complete = listResult.list_complete,
                                  !.cursor = listResult.cursor]
          IN /\ req' = [req EXCEPT ![r] =
                   IF Len(listResult.keys) > 0
                   THEN [q EXCEPT !.totalAttemptedDeletions = @ + Len(listResult.keys),
                                  !.batch = keysToDelete, !.pc = "scan_del",
                                  !.ops = @ + Len(listResult.keys)]
                   ELSE AfterPage(q)]
             /\ UNCHANGED failures
       \/ /\ MayFail
          /\ failures' = failures + 1
          /\ req' = [req EXCEPT ![r] =
                        AfterPage([req[r] EXCEPT !.list_complete = TRUE,
                                                 !.cursor = Undefined])]
    /\ Silent /\ UNCHANGED <<currentDebugChallenge, store, mintPasses, spent, started, writes, limit>>

\* A fault: the keys of a page are not added to the attempted counter.
ClearListDoneUncounted(r) ==
    /\ req[r].kind = "clear" /\ req[r].pc = "scan"
    /\ \/ /\ MayFail
          /\ failures' = failures + 1
          /\ req' = [req EXCEPT ![r].overallStatus = "error", ![r].pc = "relist",
                                ![r].ops = @ + 1]
       \/ LET listResult == KVList(DOMAIN store, prefixes_to_delete[req[r].prefixIdx],
                                   req[r].cursor, keyLimit)
              keysToDelete == Range(listResult.keys)
              q == [req[r] EXCEPT !.list_complete = listResult.list_complete,
                                  !.cursor = listResult.cursor]
          IN /\ req' = [req EXCEPT ![r] =
                   IF Len(listResult.keys) > 0
                   THEN [q EXCEPT !.batch = keysToDelete, !.pc = "scan_del",
                                  !.ops = @ + Len(listResult.keys)]
                   ELSE AfterPage(q)]
             /\ UNCHANGED failures
    /\ Silent /\ UNCHANGED <<currentDebugChallenge, store, mintPasses, spent, started, writes, limit>>

\* A list call of the scan returns or raises.  A page with keys has a delete
\* issued for each of them; an empty page ends the pass.
ClearListDone(r) ==
    /\ req[r].kind = "clear" /\ req[r].pc = "scan"
    /\ \/ /\ MayFail
          /\ failures' = failures + 1
          /\ req' = [req EXCEPT ![r].overallStatus = "error", ![r].pc = "relist",
                                ![r].ops = @ + 1]
       \/ LET listResult == KVList(DOMAIN store, prefixes_to_delete[req[r].prefixIdx],
                                   req[r].cursor, keyLimit)
              keysToDelete == Range(listResult.keys)
              q == [req[r] EXCEPT !.list_complete = listResult.list_complete,
                                  !.cursor = listResult.cursor]
          IN /\ req' = [req EXCEPT ![r] =
                   IF Len(listResult.keys) > 0
                   THEN [q EXCEPT !.totalAttemptedDeletions = @ + Len(listResult.keys),
                                  !.batch = keysToDelete, !.pc = "scan_del",
                                  !.ops = @ + Len(listResult.keys)]
                   ELSE AfterPage(q)]
             /\ UNCHANGED failures
    /\ Silent /\ UNCHANGED <<currentDebugChallenge, store, mintPasses, spent, started, writes, limit>>

\* A fault: a delete of the page that raises cancels the deletes of the page
\* that have not settled.
ClearDeleteDoneCancelling(r) ==
    /\ req[r].kind = "clear" /\ req[r].pc = "scan_del"
    /\ \E key \in req[r].batch :
          \/ LET q == [req[r] EXCEPT !.batch = @ \ {key},
                                     !.deleted = @ \cup ({key} \cap DOMAIN store)]
             IN /\ store' = KVDelete(store, key)
                /\ req' = [req EXCEPT ![r] = IF q.batch = {} THEN AfterPage(q) ELSE q]
                /\ UNCHANGED failures
          \/ LET q == [req[r] EXCEPT !.batch = {}, !.totalErrors = @ + 1]
             IN /\ MayFail
                /\ failures' = failures + 1
                /\ req' = [req EXCEPT ![r] = AfterPage(q)]
                /\ UNCHANGED store
    /\ Silent /\ UNCHANGED <<currentDebugChallenge, mintPasses, spent, started, writes, limit>>

\* One delete of the page returns, or raises and is counted by its catch;
\* Promise.all resumes the scan when the last one has settled.
ClearDeleteDone(r) ==
    /\ req[r].kind = "clear" /\ req[r].pc = "scan_del"
    /\ \E key \in req[r].batch :
          \/ LET q == [req[r] EXCEPT !.batch = @ \ {key},
                                     !.deleted = @ \cup ({key} \cap DOMAIN store)]
             IN /\ store' = KVDelete(store, key)
                /\ req' = [req EXCEPT ![r] = IF q.batch = {} THEN AfterPage(q) ELSE q]
                /\ UNCHANGED failures
          \/ LET q == [req[r] EXCEPT !.batch = @ \ {key}, !.totalErrors = @ + 1]
             IN /\ MayFail
                /\ failures' = failures + 1
                /\ req' = [req EXCEPT ![r] = IF q.batch = {} THEN AfterPage(q) ELSE q]
                /\ UNCHANGED store
    /\ Silent /\ UNCHANGED <<currentDebugChallenge, mintPasses, spent, started, writes, limit>>

\* The list call of the re-rendered page returns or raises; the page is sent.
ClearRelistDone(r) ==
    /\ req[r].kind = "clear" /\ req[r].pc = "relist"
    /\ \/ /\ MayFail
          /\ failures' = failures + 1
          /\ Respond(r, req[r], ClearPage(req[r], <<>>, "error"))
       \/ LET listResult == KVList(DOMAIN store, EMAIL_PREFIX, Undefined, keyLimit)
              listErrorMsg == IF listResult.list_complete = FALSE THEN "truncated" ELSE "none"
          IN /\ Respond(r, req[r], ClearPage(req[r], ExtractEmails(listResult.keys), listErrorMsg))
             /\ UNCHANGED failures
    /\ UNCHANGED <<currentDebugChallenge, store, mintPasses, spent, started, writes, limit>>

\* ------------------------------------------------------------ the issuer

\* The external issuer stores the refresh record of a new session of the
\* first subject at a login.
IssuerLogin ==
    /\ writes < limit.writes
    /\ store' = KVPut(store, refreshKey(Sub1, SessionNames[MaxSessions + writes + 1]),
                      SessionRecord)
    /\ writes' = writes + 1
    /\ Silent /\ UNCHANGED <<currentDebugChallenge, req, mintPasses, spent, started, failures, limit>>

\* ------------------------------------------------------------ the success callback

\* `refresh:user:${userData.userId}:${sessionId}`
inlineRefreshKey(userId, sessionId) ==
    <<"refresh", ":", "user", ":">> \o userId \o <<":", sessionId>>

\* new Response('Internal server configuration error', { status: 500 })
ConfigurationError == [NoResp EXCEPT !.status = 500, !.page = "text"]

\* new Response('Failed to authenticate with backend service', { status: 500 })
BackendError == [NoResp EXCEPT !.status = 500, !.page = "text", !.result = "backend"]

\* The answer of ctx.subject('user', ...): the library goes on with the flow.
SubjectIssued == [NoResp EXCEPT !.status = 302, !.page = "subject"]

\* new Response(JSON.stringify(tokenResponse), { status: 200 })
TokenResponse == [NoResp EXCEPT !.status = 200, !.page = "tokens"]

\* The answer of the catch block: 500 in the first edit pass, and in the
\* second a 200 whose body says success: true with a placeholder user.
SuccessCatch(version) ==
    IF version = 1
    THEN [NoResp EXCEPT !.status = 500, !.page = "text", !.result = "catch"]
    ELSE [NoResp EXCEPT !.status = 200, !.page = "success_true"]

\* success(ctx, value), from the call by the issuer to the fetch of the
\* backend service: the check of the BACKEND_SERVICE binding.
SuccessStart(r) ==
    /\ CanStart(r, "success")
    /\ \E version \in {1, 2}, backendService \in BOOLEAN, authStore \in BOOLEAN :
          LET q == [IdleReq EXCEPT !.kind = "success", !.id = started + 1,
                                   !.version = version, !.authStore = authStore]
          IN IF ~backendService
             THEN Respond(r, [q EXCEPT !.backend = "missing"], ConfigurationError)
             ELSE /\ req' = [req EXCEPT ![r] = [q EXCEPT !.backend = "pending", !.pc = "fetch"]]
                  /\ Silent
    /\ started' = started + 1
    /\ UNCHANGED <<currentDebugChallenge, store, mintPasses, spent, failures, writes, limit>>

\* backendService.fetch returns a 2xx answer or another one, or raises.
SuccessFetchDone(r) ==
    /\ req[r].kind = "success" /\ req[r].pc = "fetch"
    /\ \/ \E ok \in BOOLEAN :
             /\ req' = [req EXCEPT ![r].backend = IF ok THEN "ok" ELSE "non2xx",
                                   ![r].pc = IF ok THEN "json" ELSE "text"]
             /\ Silent /\ UNCHANGED failures
       \/ /\ MayFail
          /\ failures' = failures + 1
          /\ Respond(r, [req[r] EXCEPT !.backend = "raised"], SuccessCatch(req[r].version))
    /\ UNCHANGED <<currentDebugChallenge, store, mintPasses, spent, started, writes, limit>>

\* backendResponse.text() of an answer that is not 2xx returns or raises.
SuccessTextDone(r) ==
    /\ req[r].kind = "success" /\ req[r].pc = "text"
    /\ \/ /\ Respond(r, req[r], BackendError)
          /\ UNCHANGED failures
       \/ /\ MayFail
          /\ failures' = failures + 1
          /\ Respond(r, req[r], SuccessCatch(req[r].version))
    /\ UNCHANGED <<currentDebugChallenge, store, mintPasses, spent, started, writes, limit>>

\* backendResponse.json() returns the user or raises.  The first edit pass
\* hands the user to ctx.subject; the second builds the tokens itself and,
\* with the store binding, puts the refresh record.
SuccessJsonDone(r) ==
    /\ req[r].kind = "success" /\ req[r].pc = "json"
    /\ \/ \E userId \in UserIds :
             LET q == [req[r] EXCEPT !.subjectId = userId]
             IN /\ IF q.version = 1 THEN Respond(r, q, SubjectIssued)
                   ELSE IF q.authStore
                   THEN /\ req' = [req EXCEPT ![r] = [q EXCEPT !.pc = "put", !.ops = @ + 1]]
                        /\ Silent
                   ELSE Respond(r, q, TokenResponse)
                /\ UNCHANGED failures
       \/ /\ MayFail
          /\ failures' = failures + 1
          /\ Respond(r, req[r], SuccessCatch(req[r].version))
    /\ UNCHANGED <<currentDebugChallenge, store, mintPasses, spent, started, writes, limit>>

\* env.AUTH_STORE.put of the refresh record returns or raises.
SuccessPutDone(r) ==
    /\ req[r].kind = "success" /\ req[r].pc = "put"
    /\ \/ /\ store' = KVPut(store, inlineRefreshKey(req[r].subjectId, SessionNames[req[r].id]),
                            SessionRecord)
          /\ Respond(r, req[r], TokenResponse)
          /\ UNCHANGED failures
       \/ /\ MayFail
          /\ failures' = failures + 1
          /\ Respond(r, req[r], SuccessCatch(req[r].version))
          /\ UNCHANGED store
    /\ UNCHANGED <<currentDebugChallenge, mintPasses, spent, started, writes, limit>>

\* ------------------------------------------------------------ specification

Next ==
    \/ \E r \in Slots : ListStart(r)
    \/ \E r \in Slots : ListUsersDone(r)
    \/ \E r \in Slots : ListAllDone(r)
    \/ \E r \in Slots : DeleteStart(r)
    \/ \E r \in Slots : DeleteGetDone(r)
    \/ \E r \in Slots : DeletePwdDone(r)
    \/ \E r \in Slots : DeleteMapDone(r)
    \/ \E r \in Slots : DeleteListDone(r)
    \/ \E r \in Slots : DeleteRefreshDone(r)
    \/ \E r \in Slots : ClearStart(r)
    \/ \E r \in Slots : ClearListDone(r)
    \/ \E r \in Slots : ClearDeleteDone(r)
    \/ \E r \in Slots : ClearRelistDone(r)
    \/ IssuerLogin

Spec == Init /\ [][Next]_vars

\* The same handlers over the example store, with more requests in a row
\* and with requests that overlap.
ExampleSpec == InitExample /\ [][Next]_vars

\* The admin routes together with the success callback of the issuer, over
\* the example store.
InitLogin ==
    /\ store = ExampleStore
    /\ limit = [requests |-> MaxLoginRequests, failures |-> MaxFailures,
                writes |-> MaxWrites, concurrent |-> FALSE]
    /\ InitRest

NextLogin ==
    \/ Next
    \/ \E r \in Slots : SuccessStart(r)
    \/ \E r \in Slots : SuccessFetchDone(r)
    \/ \E r \in Slots : SuccessTextDone(r)
    \/ \E r \in Slots : SuccessJsonDone(r)
    \/ \E r \in Slots : SuccessPutDone(r)

LoginSpec == InitLogin /\ [][NextLogin]_vars

\* Clear-all alone over a store no one else writes to, where any number of its
\* store calls may raise.  The runtime resumes a handler once the promise it
\* awaits has settled, and every store call settles.
InitClear ==
    /\ \E mapA \in BOOLEAN, nA \in 0..MaxSessions : store = SeedStore(mapA, nA, FALSE)
    /\ limit = [requests |-> MaxClearRequests, failures |-> MaxClearFailures, writes |-> 0,
                concurrent |-> FALSE]
    /\ InitRest

NextClear ==
    \/ \E r \in Slots : ClearStart(r)
    \/ \E r \in Slots : ClearListDone(r)
    \/ \E r \in Slots : ClearDeleteDone(r)
    \/ \E r \in Slots : ClearRelistDone(r)

\* A step in which the handler of a clear-all is resumed.
ClearResumed ==
    \E r \in Slots : ClearListDone(r) \/ ClearDeleteDone(r) \/ ClearRelistDone(r)

ClearSpec == InitClear /\ [][NextClear]_vars /\ WF_vars(ClearResumed)

\* ------------------------------------------------------------ properties

\* Whether the listing request of an answer or of a slot presented the
\* challenge that was pending when it arrived.
Matched(q) == q.expected # Null /\ q.userChallenge = q.expected

\* C1: the listing route goes on to the listing (and answers 200) only for a
\* request whose challenge parameter equals a pending challenge; any other
\* request is answered 401 and has issued no store call.
C1_ListingGate ==
    /\ \A r \in Slots : req[r].kind = "list" => Matched(req[r])
    /\ answer.kind = "list" =>
          /\ answer.resp.status = 200 => Matched(answer)
          /\ ~Matched(answer) => answer.resp.status = 401 /\ answer.ops = 0

\* A listing answered 200 with the identities of the store.
C1_Witness ==
    /\ answer.kind = "list" /\ answer.resp.status = 200
    /\ answer.resp.emails # <<>> /\ Matched(answer)

\* C2: a minted challenge lets at most one request through; once it has, the
\* slot is empty, and a request that arrives at the empty slot, also with the
\* challenge just spent, is answered 401 with a newly minted challenge pending.
C2_SingleUse ==
    /\ mintPasses <= 1
    /\ mintPasses >= 1 => currentDebugChallenge = Null
    /\ (answer.kind = "list" /\ answer.expected = Null) =>
          answer.resp.status = 401 /\ Truthy(currentDebugChallenge)

\* The challenge that let a request through is presented again and refused.
C2_Witness ==
    /\ answer.kind = "list" /\ answer.resp.status = 401
    /\ spent # Null /\ answer.userChallenge = spent /\ answer.expected = Null

\* C3: a listing request with no or an incorrect challenge is answered 401,
\* and the challenge minted for it differs from every value issued before: in
\* particular from the challenge that was pending when the request arrived.
C3_FreshChallenge ==
    (answer.kind = "list" /\ ~Matched(answer)) =>
        /\ answer.resp.status = 401
        /\ answer.expected # Null => currentDebugChallenge # answer.expected

\* C4: when a delete-one or a clear-all has been answered, the slot is empty.
C4_MutationInvalidates ==
    (Mutating(answer) /\ answer.resp.status \in {200, 303}) =>
        currentDebugChallenge = Null

IsRefreshKey(k) == StartsWith(k, RefreshFamily)

\* No store call has raised and the issuer has written nothing.
Undisturbed == failures = 0 /\ writes = 0

\* C6: a delete-one that no failure disturbs removes every refresh key of the
\* identity, however many there are; and a clear-all that follows it, on a
\* store that held only that identity, finds no key to delete.
C6_AllRefreshRemoved ==
    /\ (answer.kind = "delete" /\ answer.resp.result = "deleted"
            /\ Truthy(answer.subjectId) /\ Undisturbed) =>
          \A k \in DOMAIN store : ~StartsWith(k, SubjectFamily(answer.subjectId))
    /\ (answer.kind = "clear" /\ answer.resp.status = 200 /\ Undisturbed
            /\ answer.prev.kind = "delete" /\ answer.prev.result = "deleted"
            /\ answer.prev.count = 1 /\ answer.prev.alone /\ answer.prev.n > 0) =>
          answer.resp.attempted = 0

\* C7: on the example store a delete-one of its identity that no failure
\* disturbs removes the four keys and reports deleted, and a listing that
\* arrives after it and succeeds shows no identity.
C7_ExampleDelete ==
    /\ (answer.kind = "delete" /\ answer.resp.status = 303 /\ answer.email = EmailA
            /\ answer.prev = NoMutation /\ Undisturbed) =>
          /\ answer.resp.result = "deleted"
          /\ answer.deleted = DOMAIN ExampleStore
          /\ store = << >>
    /\ (answer.kind = "list" /\ answer.resp.status = 200 /\ answer.resp.errorMsg = "none"
            /\ last.kind = "delete" /\ last.email = EmailA /\ last.result = "deleted"
            /\ last.count = 1 /\ answer.id > last.at /\ Undisturbed) =>
          answer.resp.emails = << >>

\* The listing after the delete-one of the example: no identity.
C7_Witness ==
    /\ answer.kind = "list" /\ answer.resp.status = 200 /\ answer.resp.errorMsg = "none"
    /\ last.kind = "delete" /\ last.email = EmailA /\ last.result = "deleted"
    /\ last.count = 1 /\ answer.id > last.at /\ Undisturbed
    /\ answer.resp.emails = << >>

\* C8: with no mapping key the delete-one still deletes the credential key,
\* does not fail, issues no call for the refresh keys and reports deleted.
C8_NoMapping ==
    /\ \A r \in Slots :
          (req[r].kind = "delete" /\ ~req[r].mapped) =>
              req[r].pc \notin {"list_refresh", "del_refresh"}
    /\ (answer.kind = "delete" /\ answer.resp.status = 303 /\ ~answer.mapped
            /\ failures = 0) =>
          /\ answer.resp.result = "deleted"
          /\ pwdHashKey(answer.email) \notin DOMAIN store
          /\ answer.ops = 3
          /\ \A k \in answer.deleted : ~IsRefreshKey(k)

\* A credential without its mapping is deleted; refresh keys stay behind.
C8_Witness ==
    /\ answer.kind = "delete" /\ answer.resp.result = "deleted"
    /\ answer.hashed /\ ~answer.mapped /\ answer.n > 0 /\ failures = 0
    /\ pwdHashKey(answer.email) \in answer.deleted

\* C9: when a delete-one of an identity that had both keys has been answered,
\* its credential key and its mapping key are both gone or both still there,
\* whichever store calls failed.
C9_PairedDeletion ==
    (answer.kind = "delete" /\ answer.resp.status = 303
        /\ answer.hashed /\ answer.mapped) =>
        (pwdHashKey(answer.email) \in DOMAIN store
            <=> subjectMapKey(answer.email) \in DOMAIN store)

\* C10: a delete-one lists or deletes refresh keys only after its read of the
\* mapping key has returned a subject id that is not empty.
C10_RefreshNeedsSubject ==
    /\ \A r \in Slots :
          (req[r].kind = "delete"
              /\ (\/ req[r].pc \in {"list_refresh", "del_refresh"}
                  \/ \E k \in req[r].deleted : IsRefreshKey(k))) =>
              req[r].readOk /\ Truthy(req[r].subjectId)
    /\ (answer.kind = "delete" /\ \E k \in answer.deleted : IsRefreshKey(k)) =>
          answer.readOk /\ Truthy(answer.subjectId)

\* The read of the mapping key failed: both keys are deleted and the refresh
\* keys of the identity are all left in the store.
C10_Witness ==
    /\ answer.kind = "delete" /\ answer.resp.result = "deleted"
    /\ answer.mapped /\ ~answer.readOk /\ answer.n > 0
    /\ Cardinality({k \in DOMAIN store : StartsWith(k, SubjectFamily(SubjectOf(answer.email)))})
          = answer.n

\* The number of keys the store held under the two prefixes when the
\* clear-all just answered arrived, where nothing else wrote or deleted while
\* it ran: the keys it removed and the keys of the two families still there.
KeysAtArrival ==
    Cardinality(answer.deleted) + Cardinality({k \in DOMAIN store : InFamily(k)})

\* C11: a clear-all whose scan is not aborted, with no record written beside
\* it, reports as attempted the number of keys the store held under the two
\* prefixes as it arrived, also where they fill several pages per prefix.
C11_EveryPageVisited ==
    (answer.kind = "clear" /\ answer.resp.status = 200
        /\ answer.resp.result \in {"success", "partial"} /\ writes = 0) =>
        answer.resp.attempted = KeysAtArrival

\* A clear-all over more keys than two pages hold counts and removes them all.
C11_Witness ==
    /\ answer.kind = "clear" /\ answer.resp.result = "success"
    /\ answer.resp.attempted > 2 * StorePageSize
    /\ Cardinality(answer.deleted) = answer.resp.attempted /\ Undisturbed

\* C12: clear-all reports success when no delete failed, partial only when
\* some deletes succeeded and some failed, and error otherwise.
C12_ThreeOutcomes ==
    (answer.kind = "clear" /\ answer.resp.status = 200) =>
        /\ answer.resp.result \in {"success", "partial", "error"}
        /\ answer.resp.result = "success" => answer.resp.errors = 0
        /\ answer.resp.result = "partial" =>
              /\ answer.resp.errors > 0
              /\ answer.resp.errors < answer.resp.attempted

\* An email entry that is missing, empty or not a string.
NoEmail(entry) == entry \in {Null, << >>, FileEntry}

C14_BindingUnavailable ==
    /\ \A r \in Slots : req[r].authStore
    /\ answer.resp.status = 500 => ~answer.authStore
    /\ ~answer.authStore =>
          /\ answer.ops = 0
          /\ answer.resp.status = 500 /\ answer.resp.page = "text"
          /\ answer.kind = "list" => Matched(answer)

\* A listing request with the pending challenge and no binding: 500.
C14_Witness ==
    /\ answer.kind = "list" /\ Matched(answer) /\ ~answer.authStore
    /\ answer.resp.status = 500 /\ currentDebugChallenge = Null

\* The keys of the page the listing route reads: the first page under the
\* email prefix.  (No step writes or deletes such a key while a listing runs
\* where requests do not overlap.)
FirstEmailPage == Range(KVList(DOMAIN store, EMAIL_PREFIX, Undefined, keyLimit).keys)

\* C15: a listing whose list call succeeded renders one identity for every
\* well-formed key of its page, the key's email, and none for a key of the
\* page with no delimiter after the prefix.
C15_MalformedSkipped ==
    (answer.kind = "list" /\ answer.resp.status = 200 /\ answer.resp.errorMsg # "error") =>
        /\ \A i \in 1..Len(answer.resp.emails) : answer.resp.emails[i] \in Emails
        /\ \A e \in Emails :
              ({pwdHashKey(e), subjectMapKey(e)} \cap FirstEmailPage # {}) =>
                  \E i \in 1..Len(answer.resp.emails) : answer.resp.emails[i] = e
        /\ Len(answer.resp.emails) = Cardinality(FirstEmailPage \ {MalformedKey})

\* A page with the malformed key and a well-formed one: one identity shown.
C15_Witness ==
    /\ answer.kind = "list" /\ answer.resp.status = 200 /\ answer.resp.errorMsg # "error"
    /\ MalformedKey \in FirstEmailPage
    /\ Len(answer.resp.emails) = Cardinality(FirstEmailPage) - 1
    /\ Len(answer.resp.emails) > 0

\* C16: when the store holds more keys under the email prefix than the page
\* of the list call, a listing none of whose store calls fails still answers 200,
\* with a warning and the identities of that page only, after two list calls:
\* the one under the prefix and the one over all keys, neither with a cursor.
C16_TruncatedListing ==
    (answer.kind = "list" /\ answer.resp.page = "listing" /\ failures = 0) =>
        LET held == {k \in DOMAIN store : StartsWith(k, EMAIL_PREFIX)}
        IN /\ answer.resp.status = 200 /\ answer.ops = 2
           /\ answer.resp.errorMsg = (IF held # FirstEmailPage THEN "truncated" ELSE "none")
           /\ Len(answer.resp.emails) <= Cardinality(FirstEmailPage)

\* A truncated listing: the warning, an identity of the page, and an identity
\* of the store that is not shown.
C16_Witness ==
    /\ answer.kind = "list" /\ answer.resp.status = 200
    /\ answer.resp.errorMsg = "truncated" /\ Len(answer.resp.emails) > 0
    /\ \E e \in Emails :
          /\ pwdHashKey(e) \in DOMAIN store
          /\ \A i \in 1..Len(answer.resp.emails) : answer.resp.emails[i] # e

\* C17: the 401 answer is the same whichever value was minted for it: it is
\* the challenge page of every token.
C17_ChallengePageSame ==
    (answer.kind = "list" /\ answer.resp.status = 401) =>
        /\ Truthy(currentDebugChallenge)
        /\ \A code \in Tokens : answer.resp = showChallengePage(code)

\* Two challenges in a row with different values, answered alike.
C17_Witness ==
    /\ answer.kind = "list" /\ answer.resp.status = 401
    /\ Truthy(answer.expected) /\ currentDebugChallenge # answer.expected
    /\ answer.resp = showChallengePage(answer.expected)

\* C19: the module has one slot for all admins: a request that presents a
\* token is refused whenever the slot no longer holds it, so an admin whose
\* challenge another request has consumed or overwritten is answered 401.
C19_SharedSlotRace ==
    (answer.kind = "list" /\ Truthy(answer.userChallenge)
        /\ answer.userChallenge # answer.expected) =>
        answer.resp.status = 401 /\ answer.ops = 0

\* An admin presents the token minted for it and is refused, while the
\* listing of the request that consumed the token is still running.
C19_Witness ==
    /\ answer.kind = "list" /\ answer.resp.status = 401
    /\ Truthy(spent) /\ answer.userChallenge = spent /\ answer.expected = Null
    /\ \E r \in Slots :
          /\ req[r].kind = "list" /\ req[r].pc \in {"list_users", "list_all"}
          /\ req[r].userChallenge = spent /\ req[r].id < answer.id

\* C18: a success callback that finds no backend-service binding, or whose
\* backend call is answered with a status that is not 2xx, answers 500, hands
\* out no subject and no token, and issues no store call.
C18_BackendFailureFatal ==
    (answer.kind = "success" /\ answer.backend \in {"missing", "non2xx"}) =>
        /\ answer.resp.status = 500 /\ answer.resp.page = "text"
        /\ answer.ops = 0

\* C20: every refresh record in the store, whoever created it at a login,
\* lies under the refresh-token family, and a clear-all that nothing disturbs
\* leaves none behind.
C20_SessionRecordsInFamily ==
    /\ \A k \in DOMAIN store : store[k] = SessionRecord => IsRefreshKey(k)
    /\ (answer.kind = "clear" /\ answer.resp.result = "success" /\ Undisturbed) =>
          \A k \in DOMAIN store : store[k] # SessionRecord

\* C21: a request is let through only while the slot holds a challenge, the
\* one it presents, and that step empties the slot; the slot takes a value
\* only in a step in which the listing route answers 401, and a pending value
\* leaves the slot only in such a step, in a step that lets a request through
\* or when a delete-one is answered.  So the challenge of a successful listing
\* comes from the latest 401, with no delete-one answered since; and when the
\* listing is answered the slot is empty, unless a 401 has been answered since
\* the request was let through.
C21_MintThenPass ==
    [][LET pass == mintPasses' = mintPasses + 1
           mint == answer'.kind = "list" /\ answer'.resp.status = 401
           deleteDone == answer'.kind = "delete" /\ answer'.resp.status = 303
       IN /\ pass => /\ Truthy(currentDebugChallenge)
                     /\ spent' = currentDebugChallenge
                     /\ currentDebugChallenge' = Null
                     /\ \E r \in Slots : /\ req[r].pc = "idle"
                                         /\ answer'.kind = "list" \/ req'[r].kind = "list"
          /\ (Truthy(currentDebugChallenge') /\ currentDebugChallenge' # currentDebugChallenge)
                => mint
          /\ (Truthy(currentDebugChallenge) /\ currentDebugChallenge' # currentDebugChallenge)
                => pass \/ mint \/ deleteDone
          /\ (answer'.kind = "list" /\ answer'.resp.status = 200) =>
                /\ Matched(answer') /\ answer'.userChallenge \in Tokens
                /\ mintPasses' >= 1 => currentDebugChallenge' = Null]_vars

\* A delete-one is answered, then a 401 mints a challenge, and the request
\* that presents it is answered the listing: the slot is empty again.
C21_Witness ==
    /\ answer.kind = "list" /\ answer.resp.status = 200 /\ Matched(answer)
    /\ answer.prev.kind = "delete" /\ answer.prev.at < answer.id - 1
    /\ mintPasses = 1 /\ currentDebugChallenge = Null

\* The keys the store holds under the two prefixes clear-all scans.
FamilyKeys == {k \in DOMAIN store : InFamily(k)}

\* C22: when a clear-all whose scan ran through both prefixes is answered and
\* no record was written beside it, the keys left under the two prefixes are
\* as many as the deletions that failed, and every key it listed was either
\* removed or failed: with no failed deletion, no key is left.
C22_OnlyFailedRemain ==
    (answer.kind = "clear" /\ answer.resp.status = 200
        /\ answer.resp.result \in {"success", "partial"} /\ writes = 0) =>
        /\ Cardinality(FamilyKeys) = answer.resp.errors
        /\ Cardinality(answer.deleted) + answer.resp.errors = answer.resp.attempted
        /\ FamilyKeys \cap answer.deleted = {}
        /\ answer.resp.result = "success" => FamilyKeys = {}

\* A scan over both families in which one deletion failed: that key is the
\* one key left, and keys of both families were removed.
C22_Witness ==
    /\ answer.kind = "clear" /\ answer.resp.result = "partial" /\ writes = 0
    /\ Cardinality(FamilyKeys) = 1 /\ answer.resp.errors = 1
    /\ \E k \in answer.deleted : StartsWith(k, EMAIL_PREFIX)
    /\ \E k \in answer.deleted : IsRefreshKey(k)

\* C23: a delete is issued for every key of a batch, and a delete that fails
\* neither stops nor undoes the others.  Of a clear-all, every key listed so
\* far is removed, counted as failed, or still being deleted; of a delete-one
\* that listed refresh keys, the store calls are the four before the batch and
\* one delete per key of the page, also when it answers error; and no key a
\* request has removed is in the store again.
C23_NoBatchRollback ==
    /\ \A r \in Slots : req[r].deleted \cap DOMAIN store = {}
    /\ answer.deleted \cap DOMAIN store = {}
    /\ \A r \in Slots :
          req[r].kind = "clear" =>
              Cardinality(req[r].deleted) + req[r].totalErrors + Cardinality(req[r].batch)
                  = req[r].totalAttemptedDeletions
    /\ \A r \in Slots :
          (req[r].kind = "delete" /\ req[r].pc = "del_refresh" /\ writes = 0) =>
              /\ req[r].ops = 4 + Min2(req[r].n, StorePageSize)
              /\ Cardinality({k \in req[r].deleted : IsRefreshKey(k)})
                     + Cardinality(req[r].batch) = Min2(req[r].n, StorePageSize)
    /\ (answer.kind = "delete" /\ answer.ops > 4 /\ writes = 0) =>
          answer.ops = 4 + Min2(answer.n, StorePageSize)

\* A delete-one whose batch had two keys: one delete succeeded, the other
\* failed; the first key stays removed and the request answers error.
C23_Witness ==
    /\ answer.kind = "delete" /\ answer.resp.result = "error" /\ answer.ops = 6
    /\ Cardinality({k \in answer.deleted : IsRefreshKey(k)}) = 1
    /\ \E k \in DOMAIN store : StartsWith(k, SubjectFamily(answer.subjectId))

\* C24: a clear-all in which a deletion failed is still answered 200 with the
\* page; unless a list call raised as well, its outcome is partial and, with
\* no record written beside it, it went on to list every key the store held
\* under both prefixes.
C24_DeleteFailureCounted ==
    (answer.kind = "clear" /\ answer.resp.errors > 0) =>
        /\ answer.resp.status = 200 /\ answer.resp.page = "listing"
        /\ answer.resp.errors <= failures
        /\ \/ answer.resp.result = "partial"
           \/ answer.resp.result = "error" /\ failures > answer.resp.errors
        /\ (answer.resp.result = "partial" /\ writes = 0) =>
              answer.resp.attempted = KeysAtArrival

\* A deletion of the first family fails, and the scan goes on over the
\* second family and removes its keys.
C24_Witness ==
    /\ answer.kind = "clear" /\ answer.resp.result = "partial" /\ answer.resp.errors = 1
    /\ \E k \in FamilyKeys : StartsWith(k, EMAIL_PREFIX)
    /\ \E k \in answer.deleted : IsRefreshKey(k)
    /\ answer.resp.attempted > StorePageSize

\* C25: a clear-all whose outcome is error has nothing left to do but the list
\* call of the page it answers with; it is answered 200 with that page, a list
\* call of it has raised, the deletions it made before stay applied and every
\* delete it issued has settled.  And a first request's clear-all in which a
\* list call of the scan raised has the outcome error.
C25_ListFailureAborts ==
    /\ \A r \in Slots :
          (req[r].kind = "clear" /\ req[r].overallStatus = "error") =>
              req[r].pc = "relist" /\ req[r].batch = {}
    /\ (answer.kind = "clear" /\ answer.resp.result = "error") =>
          /\ answer.resp.status = 200 /\ answer.resp.page = "listing"
          /\ failures > answer.resp.errors
          /\ answer.deleted \cap DOMAIN store = {}
          /\ Cardinality(answer.deleted) + answer.resp.errors = answer.resp.attempted
    /\ (answer.kind = "clear" /\ answer.id = 1 /\ answer.resp.status = 200
            /\ failures > answer.resp.errors
                            + (IF answer.resp.errorMsg = "error" THEN 1 ELSE 0)) =>
          answer.resp.result = "error"

\* The list call of a later page raises: the keys of the pages before are
\* removed, keys of the two families are left unscanned, the outcome is error.
C25_Witness ==
    /\ answer.kind = "clear" /\ answer.resp.result = "error" /\ answer.resp.status = 200
    /\ answer.deleted # {} /\ answer.resp.errors = 0
    /\ FamilyKeys # {} /\ writes = 0

\* The refresh keys the store holds for the subject of an identity.
OrphanKeys(email) == {k \in DOMAIN store : StartsWith(k, SubjectFamily(SubjectOf(email)))}

\* C26: a delete-one that arrives when the identity's mapping key is gone
\* issues no list and no delete for refresh keys and removes none: the refresh
\* keys the subject had as it arrived are all still there when it is answered.
\* A clear-all that nothing disturbs removes them.
C26_OrphansStay ==
    /\ \A r \in Slots :
          (req[r].kind = "delete" /\ ~req[r].mapped) =>
              /\ req[r].pc \notin {"list_refresh", "del_refresh"}
              /\ ~Truthy(req[r].subjectId)
              /\ Cardinality(OrphanKeys(req[r].email)) >= req[r].n
    /\ (answer.kind = "delete" /\ answer.resp.status = 303 /\ ~answer.mapped) =>
          /\ \A k \in answer.deleted : ~IsRefreshKey(k)
          /\ Cardinality(OrphanKeys(answer.email)) >= answer.n
          /\ answer.ops <= 3
    /\ (answer.kind = "clear" /\ answer.resp.result = "success" /\ Undisturbed
            /\ answer.prev.kind = "delete") =>
          OrphanKeys(answer.prev.email) = {}

\* A second delete-one of an identity whose first delete-one removed the
\* mapping and left refresh keys: it reports deleted and the keys are there.
C26_Witness ==
    /\ answer.kind = "delete" /\ answer.resp.status = 303
    /\ answer.prev.kind = "delete" /\ answer.prev.email = answer.email
    /\ answer.prev.n > 0 /\ ~answer.mapped /\ answer.n > 0
    /\ Cardinality(OrphanKeys(answer.email)) = answer.n

\* The refresh keys the issuer has written since the store was seeded.
IssuerKeys == {refreshKey(Sub1, SessionNames[MaxSessions + i]) : i \in 1..writes}

\* C27: a delete-one that answers deleted after none of its store calls failed,
\* with a subject id read, and whose list of refresh keys was not cut short by
\* the page size, leaves under the subject's prefix only keys the issuer
\* wrote; a key written after the list call returned is such a key.
C27_NotAtomic ==
    (answer.kind = "delete" /\ answer.resp.result = "deleted" /\ failures = 0
        /\ Truthy(answer.subjectId) /\ answer.n + writes <= StorePageSize) =>
        /\ OrphanKeys(answer.email) \subseteq IssuerKeys
        /\ writes = 0 => OrphanKeys(answer.email) = {}

\* The issuer writes a refresh key of the subject after the delete-one has
\* listed the subject's keys: the request removes the keys it listed, answers
\* deleted, and the new key of the identity is in the store.
C27_Witness ==
    /\ answer.kind = "delete" /\ answer.resp.result = "deleted" /\ failures = 0
    /\ Truthy(answer.subjectId) /\ answer.n > 0 /\ answer.n + writes <= StorePageSize
    /\ Cardinality({k \in answer.deleted : IsRefreshKey(k)}) = answer.n
    /\ OrphanKeys(answer.email) # {}
    /\ subjectMapKey(answer.email) \notin DOMAIN store

\* C28: over a finite store that nothing else writes to, every clear-all that
\* starts its scan is answered, with the page and status 200, whichever of its
\* store calls raise; while it scans a prefix its cursor only moves forward in
\* the order of the keys, and it lists no key twice: the keys it has listed
\* are never more than the keys it removed and the keys still there.
C28_ClearTerminates ==
    /\ [][\A r \in Slots :
             (req[r].kind = "clear" /\ req'[r].kind = "clear"
                 /\ req'[r].prefixIdx = req[r].prefixIdx
                 /\ Truthy(req[r].cursor) /\ Truthy(req'[r].cursor)) =>
                 req'[r].cursor = req[r].cursor \/ KeyLess(req[r].cursor, req'[r].cursor)]_vars
    /\ [](\A r \in Slots :
             req[r].kind = "clear" =>
                 req[r].totalAttemptedDeletions
                     <= Cardinality(req[r].deleted) + Cardinality(FamilyKeys))
    /\ (\E r \in Slots : req[r].kind = "clear")
          ~> (answer.kind = "clear" /\ answer.resp.status = 200)

\* Every deletion of a clear-all over several pages failed, and it answered.
C28_Witness ==
    /\ answer.kind = "clear" /\ answer.resp.status = 200
    /\ answer.resp.attempted > 2 * StorePageSize
    /\ answer.resp.errors = answer.resp.attempted /\ answer.deleted = {}

\* The well-formed keys of the page the listing reads, in store order: the
\* keys that are the prefix, an email and a suffix.
WellFormedPage ==
    SelectSeq(KVList(DOMAIN store, EMAIL_PREFIX, Undefined, keyLimit).keys,
              LAMBDA k : \E e \in Emails : k \in {pwdHashKey(e), subjectMapKey(e)})

\* C29: the identities of a page whose list call succeeded, of the listing
\* route and of clear-all's re-rendered page alike, are one per well-formed
\* key of the page, in the order of the keys, each the email its key was built
\* from; an identity with two keys on the page is there twice.
C29_OnePerKey ==
    (answer.kind \in {"list", "clear"} /\ answer.resp.page = "listing"
        /\ answer.resp.errorMsg # "error") =>
        /\ Len(answer.resp.emails) = Len(WellFormedPage)
        /\ \A i \in 1..Len(WellFormedPage) :
              WellFormedPage[i] \in {pwdHashKey(answer.resp.emails[i]),
                                     subjectMapKey(answer.resp.emails[i])}

\* An identity with its credential key and its mapping key on the page is
\* rendered twice in a row.
C29_Witness ==
    /\ answer.kind = "list" /\ answer.resp.status = 200 /\ answer.resp.errorMsg # "error"
    /\ Len(answer.resp.emails) >= 2
    /\ answer.resp.emails[1] = answer.resp.emails[2]
    /\ WellFormedPage = <<pwdHashKey(answer.resp.emails[1]), subjectMapKey(answer.resp.emails[1])>>

\* C30: a delete-one with the store binding and a valid email is answered the
\* 303 redirect with status deleted or error; and of the first request of a
\* behaviour, whose store calls are then the only ones that can have raised,
\* the status is deleted exactly when no call but the read of the mapping key
\* raised.
C30_DeletedIffNoFailure ==
    (answer.kind = "delete" /\ answer.authStore /\ ~NoEmail(answer.entry)) =>
        /\ answer.resp.status = 303 /\ answer.resp.page = "redirect"
        /\ answer.resp.result \in {"deleted", "error"}
        /\ answer.id = 1 =>
              (answer.resp.result = "deleted"
                  <=> failures = (IF answer.readOk THEN 0 ELSE 1))

\* The list of the refresh keys raises after both keys of the identity are
\* deleted: the request is answered the redirect with status error.
C30_Witness ==
    /\ answer.kind = "delete" /\ answer.id = 1 /\ answer.resp.status = 303
    /\ answer.resp.result = "error" /\ answer.readOk /\ answer.ops = 4
    /\ {pwdHashKey(answer.email), subjectMapKey(answer.email)} \subseteq answer.deleted
    /\ OrphanKeys(answer.email) # {}

\* C31: where requests do not overlap, a listing request that presented the
\* pending challenge leaves the slot empty from the step that lets it through,
\* before any store call, and to its answer, whatever the answer: 500 without
\* a store call when the binding is missing, otherwise the 200 page, which
\* after a list call that raised carries the error banner and the identities
\* extracted before it (none if the first list call raised, those of the page
\* if the second did).
C31_SpentBeforeStore ==
    /\ \A r \in Slots :
          req[r].kind = "list" =>
              /\ Matched(req[r]) /\ currentDebugChallenge = Null
              /\ spent = req[r].userChallenge
    /\ (answer.kind = "list" /\ Matched(answer)) =>
          /\ currentDebugChallenge = Null /\ spent = answer.userChallenge
          /\ IF ~answer.authStore
             THEN answer.resp = BindingUnavailable /\ answer.ops = 0
             ELSE /\ answer.resp.status = 200 /\ answer.resp.page = "listing"
                  /\ answer.ops \in {1, 2}
                  /\ answer.ops = 1 =>
                        answer.resp.errorMsg = "error" /\ answer.resp.emails = << >>
                  /\ answer.ops = 2 => Len(answer.resp.emails) = Len(WellFormedPage)

\* The second list call of a listing raises: the page carries the banner and
\* the identities already extracted, and the token is spent.
C31_Witness ==
    /\ answer.kind = "list" /\ Matched(answer) /\ answer.resp.status = 200
    /\ answer.resp.errorMsg = "error" /\ answer.ops = 2
    /\ answer.resp.emails # << >> /\ currentDebugChallenge = Null

\* C32: the keys a delete-one removes are keys of its identity: the credential
\* key, the mapping key, and keys under the refresh family of the identity's
\* subject followed by the delimiter.  When the first delete-one or clear-all
\* of a behaviour is a delete-one, every other key the store was seeded with
\* is still there with its value, the keys of a subject whose id begins with
\* the identity's subject id among them, and no key has appeared but the
\* records the issuer wrote.
C32_OthersUntouched ==
    /\ \A r \in Slots :
          req[r].kind = "delete" =>
              req[r].deleted = IdentityKeys(req[r].deleted, req[r].entry)
    /\ (answer.kind = "delete" /\ answer.prev = NoMutation) =>
          /\ answer.deleted = IdentityKeys(answer.deleted, answer.entry)
          /\ \E mapA \in BOOLEAN, nA \in 0..MaxSessions, others \in BOOLEAN :
                LET seed == SeedStore(mapA, nA, others)
                IN /\ \A k \in DOMAIN seed :
                         \/ k \in answer.deleted
                         \/ k \in DOMAIN store /\ store[k] = seed[k]
                   /\ DOMAIN store \subseteq DOMAIN seed \cup IssuerKeys

\* The identity whose subject id is s1 is deleted with its refresh keys; the
\* refresh key of subject s10 and the keys of its identity are still there.
C32_Witness ==
    /\ answer.kind = "delete" /\ answer.resp.result = "deleted" /\ answer.email = EmailA
    /\ \E k \in answer.deleted : StartsWith(k, SubjectFamily(Sub1))
    /\ {refreshKey(Sub10, SessionNames[1]), pwdHashKey(EmailB), subjectMapKey(EmailB),
        MalformedKey, OtherKey} \subseteq DOMAIN store

\* C33: a step of clear-all removes only keys that start with 'email' and the
\* delimiter or with 'oauth:refresh' and the delimiter; it adds no key, leaves
\* every remaining key with its value, and leaves the pending-challenge slot
\* as it was.
C33_ClearFrame ==
    [][(\E r \in Slots : req'[r] # req[r] /\ "clear" \in {req[r].kind, req'[r].kind})
        => /\ currentDebugChallenge' = currentDebugChallenge
           /\ DOMAIN store' \subseteq DOMAIN store
           /\ \A k \in DOMAIN store :
                 \/ k \in DOMAIN store' /\ store'[k] = store[k]
                 \/ StartsWith(k, EMAIL_PREFIX)
                 \/ StartsWith(k, RefreshFamily)]_vars

\* Clear-all has answered after removing keys; the key outside the two
\* families is still there and a challenge is still pending.
C33_Witness ==
    /\ answer.kind = "clear" /\ answer.resp.status = 200
    /\ answer.deleted # {}
    /\ \A k \in answer.deleted : StartsWith(k, EMAIL_PREFIX) \/ StartsWith(k, RefreshFamily)
    /\ OtherKey \in DOMAIN store
    /\ currentDebugChallenge # Null

\* C34: no step of a listing request changes the store: from its arrival to
\* its answer, 401 or 200, with the list calls returning or raising, the keys
\* and their values stay as they are.
C34_ListingReadsOnly ==
    [][(\E r \in Slots : req'[r] # req[r] /\ "list" \in {req[r].kind, req'[r].kind})
        => store' = store]_vars

\* A listing has gone through both list calls over a store that holds keys,
\* the second call raising, and has changed the slot.
C34_Witness ==
    /\ answer.kind = "list" /\ answer.resp.status = 200
    /\ answer.ops = 2 /\ answer.resp.errorMsg = "error"
    /\ answer.expected # Null /\ currentDebugChallenge = Null
    /\ DOMAIN store # {}

\* C35: a success callback in which a call has raised (the backend call, the
\* read or the parse of its answer, the write of the refresh record) answers
\* with a 5xx status, and with no subject, no tokens and no body that says
\* the authentication succeeded.
C35_FailureAnswered5xx ==
    (answer.kind = "success" /\ answer.id = 1 /\ failures > 0) =>
        /\ answer.resp.status \in 500..599
        /\ answer.resp.page \notin {"subject", "tokens", "success_true"}

\* C36: while a clear-all runs, its error counter is at most its counter of
\* attempted deletions, so a positive error counter comes with a positive
\* attempted counter, and the page it answers with shows counters in that
\* order; no step lowers a counter; and the outcome becomes error only in a
\* step in which a list call of the scan raises, the counters staying as
\* they are.
C36_CountersOrdered ==
    /\ [](/\ \A r \in Slots :
                req[r].kind = "clear" =>
                    /\ req[r].totalErrors <= req[r].totalAttemptedDeletions
                    /\ req[r].totalErrors > 0 => req[r].totalAttemptedDeletions > 0
          /\ (answer.kind = "clear" /\ answer.resp.status = 200) =>
                /\ answer.resp.errors <= answer.resp.attempted
                /\ answer.resp.result = "error" => failures > answer.resp.errors)
    /\ [][\A r \in Slots :
             (req[r].kind = "clear" /\ req'[r].kind = "clear") =>
                 /\ req'[r].totalErrors >= req[r].totalErrors
                 /\ req'[r].totalAttemptedDeletions >= req[r].totalAttemptedDeletions
                 /\ (req'[r].overallStatus = "error" /\ req[r].overallStatus # "error") =>
                       /\ req[r].pc = "scan"
                       /\ failures' = failures + 1
                       /\ req'[r].totalErrors = req[r].totalErrors
                       /\ req'[r].totalAttemptedDeletions = req[r].totalAttemptedDeletions]_vars

\* Every delete the scan issued has failed: the two counters are equal and
\* the outcome is partial.
C36_Witness ==
    /\ answer.kind = "clear" /\ answer.resp.status = 200
    /\ answer.resp.errors >= 2
    /\ answer.resp.errors = answer.resp.attempted
    /\ answer.resp.result = "partial"

====
